---- MODULE Spec2Model ----
(***************************************************************************)
(* Model of the CraftedNBA four-factors importer (src/src/import_craftednba *)
(* .py) and of the team-factors loader (src/src/src/data_bootloader.py).    *)
(*                                                                         *)
(* Python strings are sequences of one-character strings, so that lower(), *)
(* strip(), replace(), split(), float() and the ordering of sorted() are    *)
(* computed character by character.  Decimal numbers are pairs [m, d]      *)
(* standing for m / 10^d, so that "/ 100.0" and the comparisons with 1.5    *)
(* are exact; the rounding of binary floats is not modelled.  A file is    *)
(* written in one step: open, write and close are not interleaved.         *)
(***************************************************************************)
EXTENDS Integers, Sequences, FiniteSets, TLC

VARIABLES
    files,        \* processed directory: file name -> content, for the files that exist
    dirExists,    \* whether <outdir>/processed exists
    importResult, \* outcome of the last importer run
    loadResult,   \* outcome of the last load_nba_team_factors call
    runs,         \* number of importer runs started so far
    columns,      \* resolver: the table's column names
    aliases,      \* resolver: the ordered alias list
    found,        \* resolver: what find_column returned
    cell,         \* normalizers: the raw cell
    normOut,      \* normalizers: the normalized and clipped values
    pc,           \* concurrent runs: each run's position in main()
    args,         \* concurrent runs: each run's (table, date)
    overlap,      \* concurrent runs: some run started while another was in main()
    lastWriter    \* concurrent runs: the run that wrote the current file last

vars == <<files, dirExists, importResult, loadResult, runs, columns, aliases,
          found, cell, normOut, pc, args, overlap, lastWriter>>

-----------------------------------------------------------------------------
(* Characters and strings *)

Range(s) == {s[i] : i \in 1..Len(s)}

\* the printable ASCII characters from code 32 (space) to code 122 (z), in order
\* (codes 34, 92 and 96 are named, not written)
Ascii ==
    <<" ", "!", "<dquote>", "#", "$", "%", "&", "'", "(", ")", "*", "+", ",", "-", ".", "/",
      "0", "1", "2", "3", "4", "5", "6", "7", "8", "9", ":", ";", "<", "=", ">", "?",
      "@", "A", "B", "C", "D", "E", "F", "G", "H", "I", "J", "K", "L", "M", "N", "O",
      "P", "Q", "R", "S", "T", "U", "V", "W", "X", "Y", "Z", "[", "<backslash>", "]", "^", "_",
      "<backtick>", "a", "b", "c", "d", "e", "f", "g", "h", "i", "j", "k", "l", "m", "n", "o",
      "p", "q", "r", "s", "t", "u", "v", "w", "x", "y", "z">>

\* ord(c), for each character of the table
CodePoint == [c \in Range(Ascii) |-> 31 + (CHOOSE i \in 1..Len(Ascii) : Ascii[i] = c)]

Ord(c) == CodePoint[c]

IsUpper(c) == Ord(c) >= 65 /\ Ord(c) <= 90

IsDigit(c) == Ord(c) >= 48 /\ Ord(c) <= 57

DigitVal(c) == Ord(c) - 48

\* str.lower()
LowerChar(c) == IF IsUpper(c) THEN Ascii[Ord(c) + 32 - 31] ELSE c

lower(s) == [i \in 1..Len(s) |-> LowerChar(s[i])]

\* str.strip(): leading and trailing whitespace removed
RECURSIVE lstrip(_)
lstrip(s) == IF s # <<>> /\ Head(s) = " " THEN lstrip(Tail(s)) ELSE s

RECURSIVE rstrip(_)
rstrip(s) ==
    IF s # <<>> /\ s[Len(s)] = " " THEN rstrip(SubSeq(s, 1, Len(s) - 1)) ELSE s

strip(s) == rstrip(lstrip(s))

\* str.replace(c, ""): every occurrence of the character removed
RemoveChar(s, c) == SelectSeq(s, LAMBDA x : x # c)

\* Python's order on strings: by code point, a proper prefix first
RECURSIVE StrLess(_, _)
StrLess(s, t) ==
    IF t = <<>> THEN FALSE
    ELSE IF s = <<>> THEN TRUE
    ELSE IF Head(s) # Head(t) THEN Ord(Head(s)) < Ord(Head(t))
    ELSE StrLess(Tail(s), Tail(t))

\* Python's None, and a value that is not None
None == [none |-> TRUE]

Some(x) == [val |-> x]

-----------------------------------------------------------------------------
(* Column resolver *)

\* first index of the sequence whose element satisfies the test
FirstIndex(s, Test(_)) == CHOOSE i \in 1..Len(s) :
    Test(s[i]) /\ \A j \in 1..(i - 1) : ~Test(s[j])

\* a resolver that tries every alias exactly before any alias case-insensitively
find_column_two_pass(cols, als) ==
    LET exact(a) == a \in Range(cols)
        loose(c) == \E i \in 1..Len(als) : lower(c) = lower(als[i])
    IN  IF \E i \in 1..Len(als) : exact(als[i])
        THEN Some(als[FirstIndex(als, exact)])
        ELSE IF \E i \in 1..Len(cols) : loose(cols[i])
        THEN Some(cols[FirstIndex(cols, loose)])
        ELSE None

RECURSIVE find_column(_, _)
find_column(cols, als) ==
    IF als = <<>> THEN None
    ELSE LET a == Head(als)
             same(c) == lower(strip(c)) = lower(strip(a))
         IN  IF a \in Range(cols) THEN Some(a)
             ELSE IF \E i \in 1..Len(cols) : same(cols[i])
             THEN Some(cols[FirstIndex(cols, same)])
             ELSE find_column(cols, Tail(als))

-----------------------------------------------------------------------------
(* Cells and numbers *)

\* 10^n
RECURSIVE Pow10(_)
Pow10(n) == IF n = 0 THEN 1 ELSE 10 * Pow10(n - 1)

\* a missing cell (None, NaN)
NaN == [kind |-> "nan"]

\* the finite number m / 10^d, with no trailing zero in its fraction
RECURSIVE Num(_, _)
Num(m, d) ==
    IF d > 0 /\ m % 10 = 0 THEN Num(m \div 10, d - 1)
    ELSE [kind |-> "num", m |-> m, d |-> d]

\* float("inf") and float("-inf")
Inf(neg) == [kind |-> "inf", neg |-> neg]

\* a cell holding text
Str(s) == [kind |-> "str", s |-> s]

\* x <= y on numbers (finite or infinite)
Leq(x, y) ==
    IF x.kind = "inf" THEN x.neg \/ (y.kind = "inf" /\ ~y.neg)
    ELSE IF y.kind = "inf" THEN ~y.neg
    ELSE x.m * Pow10(y.d) <= y.m * Pow10(x.d)

\* x / 100.0
Div100(x) == IF x.kind = "inf" THEN x ELSE Num(x.m, x.d + 2)

\* x - y on two columns' values; NaN when either is missing
Minus(x, y) ==
    IF x.kind = "nan" \/ y.kind = "nan" THEN NaN
    ELSE IF x.kind = "inf" /\ y.kind = "inf"
    THEN IF x.neg = y.neg THEN NaN ELSE x
    ELSE IF x.kind = "inf" THEN x
    ELSE IF y.kind = "inf" THEN Inf(~y.neg)
    ELSE LET d == IF x.d >= y.d THEN x.d ELSE y.d
         IN  Num(x.m * Pow10(d - x.d) - y.m * Pow10(d - y.d), d)

\* the decimal digits of a digit string, as a natural number
RECURSIVE DigitsVal(_)
DigitsVal(s) ==
    IF s = <<>> THEN 0
    ELSE 10 * DigitsVal(SubSeq(s, 1, Len(s) - 1)) + DigitVal(s[Len(s)])

\* float() on what follows the sign: digits with at most one point, inf,
\* infinity or nan in any case; None when it raises
float_unsigned(neg, u) ==
    LET dots == {i \in 1..Len(u) : u[i] = "."}
        digits == RemoveChar(u, ".")
    IN  IF lower(u) \in {<<"i", "n", "f">>, <<"i", "n", "f", "i", "n", "i", "t", "y">>}
        THEN Some(Inf(neg))
        ELSE IF lower(u) = <<"n", "a", "n">> THEN Some(NaN)
        ELSE IF Cardinality(dots) > 1 \/ digits = <<>>
                \/ \E i \in 1..Len(digits) : ~IsDigit(digits[i])
        THEN None
        ELSE Some(Num((IF neg THEN -1 ELSE 1) * DigitsVal(digits),
                      IF dots = {} THEN 0 ELSE Len(u) - (CHOOSE i \in dots : TRUE)))

\* float() on text without surrounding whitespace: an optional sign first
float_signed(t) ==
    float_unsigned(t # <<>> /\ Head(t) = "-",
                   IF t # <<>> /\ Head(t) \in {"-", "+"} THEN Tail(t) ELSE t)

\* Python's float(s) on text without exponent or underscore: None when it raises
ParseFloat(s) == float_signed(strip(s))

\* the float parsed, or NaN where float() raises
Coerce(parsed) == IF parsed = None THEN NaN ELSE parsed.val

\* lines 60-65 on text: NaN for the empty text and for text float() rejects
text_value(s) == IF s = <<>> THEN NaN ELSE Coerce(ParseFloat(s))

\* the value pct_to_float and ratio_to_float work on: NaN for the cells they
\* return None for
CellValue(x) ==
    IF x.kind = "nan" THEN NaN
    ELSE IF x.kind = "str" THEN text_value(RemoveChar(strip(x.s), "%"))
    ELSE x

OnePointFive == Num(15, 1)

\* lines 66-68 on the value
pct_of(val) ==
    IF val.kind = "nan" THEN NaN
    ELSE IF Leq(Num(0, 0), val) /\ Leq(val, OnePointFive) THEN val
    ELSE Div100(val)

pct_to_float(x) == pct_of(CellValue(x))

\* lines 79-81 on the value
ratio_of(val) ==
    IF val.kind = "nan" THEN NaN
    ELSE IF ~Leq(val, OnePointFive) THEN Div100(val)
    ELSE val

ratio_to_float(x) == ratio_of(CellValue(x))

\* a clip that leaves values under the lower bound alone
clip_upper_only(x, lo, hi) ==
    IF x.kind = "nan" THEN NaN
    ELSE IF ~Leq(x, hi) THEN hi
    ELSE x

\* Series.clip(lower, upper) on one value: a missing value stays missing
clip(x, lo, hi) ==
    IF x.kind = "nan" THEN NaN
    ELSE IF ~Leq(lo, x) THEN lo
    ELSE IF ~Leq(x, hi) THEN hi
    ELSE x

\* a percentage-like field of the normalized table (line 105 and line 116)
PctField(x) == clip(pct_to_float(x), Num(0, 0), Num(1, 0))

\* a rate-like field of the normalized table (line 108 and line 118)
RatioField(x) == clip(ratio_to_float(x), Num(0, 0), OnePointFive)

-----------------------------------------------------------------------------
(* Inputs of the pure functions *)

\* every sequence of at most n distinct elements of S
RECURSIVE DistinctSeqs(_, _)
DistinctSeqs(S, n) ==
    IF n = 0 THEN {<<>>}
    ELSE LET shorter == DistinctSeqs(S, n - 1)
         IN  shorter \cup UNION {{Append(q, x) : x \in S \ Range(q)} : q \in shorter}

\* every string of at most n characters of S
RECURSIVE Strings(_, _)
Strings(S, n) ==
    IF n = 0 THEN {<<>>}
    ELSE LET shorter == Strings(S, n - 1)
         IN  shorter \cup {Append(q, x) : q \in shorter, x \in S}

MaxCols == 2

MaxAliases == 2

MaxCellLen == 4

MaxDecimals == 3

\* column names and aliases the resolver is tried on
ResolverNames ==
    { <<"O", "R", "T", "G">>, <<"o", "r", "t", "g">>, <<" ", "O", "R", "T", "G">>,
      <<"O", "R", "t", "g">>, <<"O", "f", "f", "R", "t", "g">>,
      <<"o", "f", "f", "r", "t", "g">>, <<"D", "R", "T", "G">> }

CellChars == {"2", "7", "3", ".", "%", " ", "-", "x"}

NumMantissas == {-273, -1, 0, 1, 15, 16, 100, 101, 150, 151, 273, 345, 15000, 15001}

\* raw cells: missing, numbers, infinities and text
RawCells ==
    {NaN, Inf(FALSE), Inf(TRUE)}
        \cup {Num(m, d) : m \in NumMantissas, d \in 0..MaxDecimals}
        \cup {Str(s) : s \in Strings(CellChars, MaxCellLen)}
        \cup {Str(<<"n", "a", "n">>), Str(<<"-", "i", "n", "f">>), Str(<<"I", "n", "f">>)}

Pending == [pending |-> TRUE]

-----------------------------------------------------------------------------
(* The importer's tables *)

\* team name -> abbreviation, as pairs
TEAM_ABBR ==
    { <<<<"A", "t", "l", "a", "n", "t", "a", " ", "H", "a", "w", "k", "s">>,
         <<"A", "T", "L">>>>,
      <<<<"B", "o", "s", "t", "o", "n", " ", "C", "e", "l", "t", "i", "c", "s">>,
         <<"B", "O", "S">>>>,
      <<<<"B", "r", "o", "o", "k", "l", "y", "n", " ", "N", "e", "t", "s">>,
         <<"B", "K", "N">>>>,
      <<<<"C", "h", "a", "r", "l", "o", "t", "t", "e", " ", "H", "o", "r", "n", "e", "t", "s">>,
         <<"C", "H", "A">>>>,
      <<<<"C", "h", "i", "c", "a", "g", "o", " ", "B", "u", "l", "l", "s">>,
         <<"C", "H", "I">>>>,
      <<<<"C", "l", "e", "v", "e", "l", "a", "n", "d", " ", "C", "a", "v", "a", "l", "i", "e", "r", "s">>,
         <<"C", "L", "E">>>>,
      <<<<"D", "a", "l", "l", "a", "s", " ", "M", "a", "v", "e", "r", "i", "c", "k", "s">>,
         <<"D", "A", "L">>>>,
      <<<<"D", "e", "n", "v", "e", "r", " ", "N", "u", "g", "g", "e", "t", "s">>,
         <<"D", "E", "N">>>>,
      <<<<"D", "e", "t", "r", "o", "i", "t", " ", "P", "i", "s", "t", "o", "n", "s">>,
         <<"D", "E", "T">>>>,
      <<<<"G", "o", "l", "d", "e", "n", " ", "S", "t", "a", "t", "e", " ", "W", "a", "r", "r", "i", "o", "r", "s">>,
         <<"G", "S", "W">>>>,
      <<<<"H", "o", "u", "s", "t", "o", "n", " ", "R", "o", "c", "k", "e", "t", "s">>,
         <<"H", "O", "U">>>>,
      <<<<"I", "n", "d", "i", "a", "n", "a", " ", "P", "a", "c", "e", "r", "s">>,
         <<"I", "N", "D">>>>,
      <<<<"L", "A", " ", "C", "l", "i", "p", "p", "e", "r", "s">>,
         <<"L", "A", "C">>>>,
      <<<<"L", "o", "s", " ", "A", "n", "g", "e", "l", "e", "s", " ", "C", "l", "i", "p", "p", "e", "r", "s">>,
         <<"L", "A", "C">>>>,
      <<<<"L", "o", "s", " ", "A", "n", "g", "e", "l", "e", "s", " ", "L", "a", "k", "e", "r", "s">>,
         <<"L", "A", "L">>>>,
      <<<<"M", "e", "m", "p", "h", "i", "s", " ", "G", "r", "i", "z", "z", "l", "i", "e", "s">>,
         <<"M", "E", "M">>>>,
      <<<<"M", "i", "a", "m", "i", " ", "H", "e", "a", "t">>,
         <<"M", "I", "A">>>>,
      <<<<"M", "i", "l", "w", "a", "u", "k", "e", "e", " ", "B", "u", "c", "k", "s">>,
         <<"M", "I", "L">>>>,
      <<<<"M", "i", "n", "n", "e", "s", "o", "t", "a", " ", "T", "i", "m", "b", "e", "r", "w", "o", "l", "v", "e", "s">>,
         <<"M", "I", "N">>>>,
      <<<<"N", "e", "w", " ", "O", "r", "l", "e", "a", "n", "s", " ", "P", "e", "l", "i", "c", "a", "n", "s">>,
         <<"N", "O", "P">>>>,
      <<<<"N", "e", "w", " ", "Y", "o", "r", "k", " ", "K", "n", "i", "c", "k", "s">>,
         <<"N", "Y", "K">>>>,
      <<<<"O", "k", "l", "a", "h", "o", "m", "a", " ", "C", "i", "t", "y", " ", "T", "h", "u", "n", "d", "e", "r">>,
         <<"O", "K", "C">>>>,
      <<<<"O", "r", "l", "a", "n", "d", "o", " ", "M", "a", "g", "i", "c">>,
         <<"O", "R", "L">>>>,
      <<<<"P", "h", "i", "l", "a", "d", "e", "l", "p", "h", "i", "a", " ", "7", "6", "e", "r", "s">>,
         <<"P", "H", "I">>>>,
      <<<<"P", "h", "o", "e", "n", "i", "x", " ", "S", "u", "n", "s">>,
         <<"P", "H", "X">>>>,
      <<<<"P", "o", "r", "t", "l", "a", "n", "d", " ", "T", "r", "a", "i", "l", " ", "B", "l", "a", "z", "e", "r", "s">>,
         <<"P", "O", "R">>>>,
      <<<<"S", "a", "c", "r", "a", "m", "e", "n", "t", "o", " ", "K", "i", "n", "g", "s">>,
         <<"S", "A", "C">>>>,
      <<<<"S", "a", "n", " ", "A", "n", "t", "o", "n", "i", "o", " ", "S", "p", "u", "r", "s">>,
         <<"S", "A", "S">>>>,
      <<<<"T", "o", "r", "o", "n", "t", "o", " ", "R", "a", "p", "t", "o", "r", "s">>,
         <<"T", "O", "R">>>>,
      <<<<"U", "t", "a", "h", " ", "J", "a", "z", "z">>,
         <<"U", "T", "A">>>>,
      <<<<"W", "a", "s", "h", "i", "n", "g", "t", "o", "n", " ", "W", "i", "z", "a", "r", "d", "s">>,
         <<"W", "A", "S">>>> }

\* canonical field -> acceptable column names, in the order of the dict
ALIASES ==
    << [canon |-> <<"t", "e", "a", "m">>,
        aliases |-> <<<<"t", "e", "a", "m">>,
                      <<"T", "e", "a", "m">>,
                      <<"T", "E", "A", "M">>,
                      <<"s", "q", "u", "a", "d">>,
                      <<"f", "r", "a", "n", "c", "h", "i", "s", "e">>>>],
       [canon |-> <<"O", "R", "T", "G">>,
        aliases |-> <<<<"O", "R", "T", "G">>,
                      <<"O", "f", "f", "R", "t", "g">>,
                      <<"O", "R", "t", "g">>,
                      <<"O", "f", "f", "e", "n", "s", "i", "v", "e", " ", "R", "a", "t", "i", "n", "g">>>>],
       [canon |-> <<"D", "R", "T", "G">>,
        aliases |-> <<<<"D", "R", "T", "G">>,
                      <<"D", "e", "f", "R", "t", "g">>,
                      <<"D", "R", "t", "g">>,
                      <<"D", "e", "f", "e", "n", "s", "i", "v", "e", " ", "R", "a", "t", "i", "n", "g">>>>],
       [canon |-> <<"N", "e", "t", "R", "T", "G">>,
        aliases |-> <<<<"N", "e", "t", "R", "T", "G">>,
                      <<"N", "e", "t", " ", "R", "t", "g">>,
                      <<"N", "e", "t", " ", "R", "a", "t", "i", "n", "g">>,
                      <<"N", "e", "t">>>>],
       [canon |-> <<"O", "f", "f", "_", "e", "F", "G">>,
        aliases |-> <<<<"E", "F", "G", "%">>,
                      <<"e", "F", "G", "%">>,
                      <<"O", "f", "f", " ", "e", "F", "G", "%">>,
                      <<"E", "F", "G", "_", "o", "f", "f">>,
                      <<"E", "F", "G", "_", "o", "f", "f", "e", "n", "s", "e">>,
                      <<"O", "f", "f", "e", "n", "s", "e", " ", "e", "F", "G", "%">>>>],
       [canon |-> <<"O", "f", "f", "_", "O", "R", "B">>,
        aliases |-> <<<<"O", "R", "B", "%">>,
                      <<"O", "f", "f", " ", "O", "R", "B", "%">>,
                      <<"O", "R", "B", "_", "o", "f", "f">>,
                      <<"O", "R", "B", "%", " ", "(", "O", "f", "f", ")">>>>],
       [canon |-> <<"O", "f", "f", "_", "F", "T", "A", "r">>,
        aliases |-> <<<<"F", "T", "A", "r">>,
                      <<"F", "T", "A", " ", "R", "a", "t", "e">>,
                      <<"F", "T", " ", "R", "a", "t", "e", " ", "(", "O", "f", "f", ")">>>>],
       [canon |-> <<"O", "f", "f", "_", "T", "O", "V">>,
        aliases |-> <<<<"T", "O", "%">>,
                      <<"T", "O", "V", "%">>,
                      <<"T", "O", "V", "_", "o", "f", "f">>,
                      <<"T", "O", "%", " ", "(", "O", "f", "f", ")">>,
                      <<"T", "u", "r", "n", "o", "v", "e", "r", "%">>>>],
       [canon |-> <<"D", "e", "f", "_", "e", "F", "G">>,
        aliases |-> <<<<"E", "F", "G", "%", " ", "(", "D", "e", "f", ")">>,
                      <<"D", "e", "f", " ", "e", "F", "G", "%">>,
                      <<"e", "F", "G", "%", "_", "d", "e", "f">>,
                      <<"e", "F", "G", "%", " ", "A", "l", "l", "o", "w", "e", "d">>>>],
       [canon |-> <<"D", "e", "f", "_", "O", "R", "B">>,
        aliases |-> <<<<"O", "R", "B", "%", " ", "(", "D", "e", "f", ")">>,
                      <<"D", "e", "f", " ", "O", "R", "B", "%">>,
                      <<"O", "p", "p", " ", "O", "R", "B", "%">>,
                      <<"O", "R", "B", "%", "_", "d", "e", "f">>>>],
       [canon |-> <<"D", "e", "f", "_", "F", "T", "A", "r">>,
        aliases |-> <<<<"F", "T", "A", "r", " ", "(", "D", "e", "f", ")">>,
                      <<"D", "e", "f", " ", "F", "T", "A", "r">>,
                      <<"O", "p", "p", " ", "F", "T", "A", "r">>,
                      <<"F", "T", " ", "R", "a", "t", "e", " ", "(", "D", "e", "f", ")">>>>],
       [canon |-> <<"D", "e", "f", "_", "T", "O", "V">>,
        aliases |-> <<<<"T", "O", "%", " ", "(", "D", "e", "f", ")">>,
                      <<"D", "e", "f", " ", "T", "O", "V", "%">>,
                      <<"T", "O", "V", "%", "_", "d", "e", "f">>,
                      <<"O", "p", "p", " ", "T", "O", "V", "%", " ", "F", "o", "r", "c", "e", "d">>>>] >>

-----------------------------------------------------------------------------
(* load_and_normalize *)

\* a table: column names and rows of cells, one cell per column
Table(cols, rows) == [columns |-> cols, rows |-> rows]

ColIndex(cols, name) == CHOOSE i \in 1..Len(cols) : cols[i] = name

\* a table without columns
NoTable == Table(<<>>, <<>>)

\* pd.to_numeric(errors="coerce") on one cell
to_numeric(x) == IF x.kind = "str" THEN Coerce(ParseFloat(x.s)) ELSE x

\* Series.map(TEAM_ABBR).fillna(team_name) on one cell
team_code(x) ==
    IF x.kind = "str" /\ \E p \in TEAM_ABBR : p[1] = x.s
    THEN Str((CHOOSE p \in TEAM_ABBR : p[1] = x.s)[2])
    ELSE x

NetRTG == <<"N", "e", "t", "R", "T", "G">>

\* cols of load_and_normalize: for each entry of ALIASES, in the order of the
\* loop, the column find_column resolves or None
ResolveAll(df) ==
    [i \in 1..Len(ALIASES) |-> find_column(df.columns, ALIASES[i].aliases)]

\* the canonical fields for which line 91 raises
Unresolved(cols) ==
    {i \in 1..Len(ALIASES) : cols[i] = None /\ ALIASES[i].canon # NetRTG}

\* the columns of out in the order of their assignment (lines 95-120), each
\* with the canonical field it is read from and the conversion of its cells
OutFields ==
    << [out |-> <<"t", "e", "a", "m", "_", "n", "a", "m", "e">>, canon |-> <<"t", "e", "a", "m">>, conv |-> "raw"],
       [out |-> <<"t", "e", "a", "m">>, canon |-> <<"t", "e", "a", "m">>, conv |-> "team_code"],
       [out |-> <<"o", "r", "t", "g">>, canon |-> <<"O", "R", "T", "G">>, conv |-> "to_numeric"],
       [out |-> <<"d", "r", "t", "g">>, canon |-> <<"D", "R", "T", "G">>, conv |-> "to_numeric"],
       [out |-> <<"n", "e", "t", "r", "t", "g">>, canon |-> NetRTG, conv |-> "netrtg"],
       [out |-> <<"o", "f", "f", "_", "e", "f", "g">>, canon |-> <<"O", "f", "f", "_", "e", "F", "G">>, conv |-> "pct_to_float"],
       [out |-> <<"o", "f", "f", "_", "o", "r", "b">>, canon |-> <<"O", "f", "f", "_", "O", "R", "B">>, conv |-> "pct_to_float"],
       [out |-> <<"o", "f", "f", "_", "t", "o", "v">>, canon |-> <<"O", "f", "f", "_", "T", "O", "V">>, conv |-> "pct_to_float"],
       [out |-> <<"o", "f", "f", "_", "f", "t", "a", "r">>, canon |-> <<"O", "f", "f", "_", "F", "T", "A", "r">>, conv |-> "ratio_to_float"],
       [out |-> <<"d", "e", "f", "_", "e", "f", "g">>, canon |-> <<"D", "e", "f", "_", "e", "F", "G">>, conv |-> "pct_to_float"],
       [out |-> <<"d", "e", "f", "_", "o", "r", "b">>, canon |-> <<"D", "e", "f", "_", "O", "R", "B">>, conv |-> "pct_to_float"],
       [out |-> <<"d", "e", "f", "_", "t", "o", "v">>, canon |-> <<"D", "e", "f", "_", "T", "O", "V">>, conv |-> "pct_to_float"],
       [out |-> <<"d", "e", "f", "_", "f", "t", "a", "r">>, canon |-> <<"D", "e", "f", "_", "F", "T", "A", "r">>, conv |-> "ratio_to_float"],
       [out |-> <<"s", "o", "u", "r", "c", "e">>, canon |-> <<>>, conv |-> "source"] >>

OutColumns == [k \in 1..Len(OutFields) |-> OutFields[k].out]

Source == Str(<<"C", "r", "a", "f", "t", "e", "d", "N", "B", "A">>)

\* df[cols[canon]] at row r
Cell(df, cols, canon, r) ==
    df.rows[r][ColIndex(df.columns,
                        cols[CHOOSE i \in 1..Len(ALIASES) : ALIASES[i].canon = canon].val)]

\* pd.to_numeric(df[cols[canon]], errors="coerce") at row r
numeric_cell(df, cols, canon, r) == to_numeric(Cell(df, cols, canon, r))

\* lines 97-102 at row r: the net-rating column when one is resolved, else
\* ortg - drtg
netrtg(df, cols, r) ==
    LET net == cols[CHOOSE i \in 1..Len(ALIASES) : ALIASES[i].canon = NetRTG]
    IN  IF net # None /\ net.val # <<>>
        THEN numeric_cell(df, cols, NetRTG, r)
        ELSE Minus(numeric_cell(df, cols, <<"O", "R", "T", "G">>, r), numeric_cell(df, cols, <<"D", "R", "T", "G">>, r))

\* the conversion of one cell: lines 95-112 and the clipping of lines 115-118
convert(conv, x) ==
    CASE conv = "raw" -> x
      [] conv = "team_code" -> team_code(x)
      [] conv = "to_numeric" -> to_numeric(x)
      [] conv = "pct_to_float" -> PctField(x)
      [] conv = "ratio_to_float" -> RatioField(x)

\* one cell of out
OutCell(df, cols, r, f) ==
    CASE f.conv = "source" -> Source
      [] f.conv = "netrtg" -> netrtg(df, cols, r)
      [] OTHER -> convert(f.conv, Cell(df, cols, f.canon, r))

\* lines 86-121 once every alias list is looked up: the ValueError of line 91
\* for the first field of the loop that is not resolved, or the table out
normalize(df, cols) ==
    IF Unresolved(cols) # {}
    THEN [ok |-> FALSE, error |-> "ValueError",
          canon |-> ALIASES[CHOOSE i \in Unresolved(cols) :
                                \A j \in Unresolved(cols) : i <= j].canon]
    ELSE [ok |-> TRUE,
          table |-> Table(OutColumns,
              [r \in 1..Len(df.rows) |->
                  [k \in 1..Len(OutFields) |-> OutCell(df, cols, r, OutFields[k])]])]

\* load_and_normalize on the table read from the input file
load_and_normalize(df) == normalize(df, ResolveAll(df))

\* the order of sort_values("team"): text by code point, missing teams last
TeamLess(a, b) ==
    a[2].kind = "str" /\ (b[2].kind # "str" \/ StrLess(a[2].s, b[2].s))

\* rows sorted by team, rows of equal team in their order
RECURSIVE sort_rows(_)
sort_rows(rows) ==
    IF rows = <<>> THEN <<>>
    ELSE LET init == sort_rows(SubSeq(rows, 1, Len(rows) - 1))
             x == rows[Len(rows)]
             k == Cardinality({i \in 1..Len(init) : ~TeamLess(x, init[i])})
         IN  SubSeq(init, 1, k) \o <<x>> \o SubSeq(init, k + 1, Len(init))

\* a sort that drops the rows whose team is missing
sort_values_dropna(t) ==
    Table(t.columns, sort_rows(SelectSeq(t.rows, LAMBDA row : row[2].kind # "nan")))

\* df.sort_values("team").reset_index(drop=True)
sort_values(t) == Table(t.columns, sort_rows(t.rows))

-----------------------------------------------------------------------------
(* File formats *)

DigitChar(k) == Ascii[k + 17]

\* the decimal digits of a natural number
RECURSIVE NatStr(_)
NatStr(n) == IF n < 10 THEN <<DigitChar(n)>> ELSE NatStr(n \div 10) \o <<DigitChar(n % 10)>>

\* the digits of n, zero-padded on the left to the given width
RECURSIVE ZeroPad(_, _)
ZeroPad(s, width) == IF Len(s) >= width THEN s ELSE ZeroPad(<<"0">> \o s, width)

\* a float as to_csv writes it
FormatNum(x) ==
    IF x.kind = "inf" THEN (IF x.neg THEN <<"-", "i", "n", "f">> ELSE <<"i", "n", "f">>)
    ELSE LET a == IF x.m < 0 THEN 0 - x.m ELSE x.m
             sign == IF x.m < 0 THEN <<"-">> ELSE <<>>
             whole == NatStr(a \div Pow10(x.d))
             frac == IF x.d = 0 THEN <<"0">> ELSE ZeroPad(NatStr(a % Pow10(x.d)), x.d)
         IN  sign \o whole \o <<".">> \o frac

\* one field of a CSV line: a missing value is written as the empty field
FormatCell(x) ==
    IF x.kind = "nan" THEN <<>>
    ELSE IF x.kind = "str" THEN x.s
    ELSE FormatNum(x)

\* DataFrame.to_csv(index=False): the header line and one line of fields per row
to_csv(t) ==
    [header |-> t.columns,
     lines |-> [r \in 1..Len(t.rows) |->
                   [j \in 1..Len(t.columns) |-> FormatCell(t.rows[r][j])]]]

\* DataFrame.to_json(orient="records"): one object per row, NaN written as null
to_json(t) ==
    [records |-> [r \in 1..Len(t.rows) |->
                     [k \in Range(t.columns) |-> t.rows[r][ColIndex(t.columns, k)]]]]

\* whether read_csv takes column j for numeric: every field empty or a number
numeric_column(c, j) ==
    \A r \in 1..Len(c.lines) : c.lines[r][j] = <<>> \/ ParseFloat(c.lines[r][j]) # None

\* the cell read_csv makes of one field: missing, a number, or text
field_value(c, r, j) ==
    IF c.lines[r][j] = <<>> THEN NaN
    ELSE IF numeric_column(c, j) THEN ParseFloat(c.lines[r][j]).val
    ELSE Str(c.lines[r][j])

\* pd.read_csv on a file's content: a column whose fields are all empty or
\* numbers is numeric, any other column is text; an empty field is missing
read_csv(c) ==
    Table(c.header,
          [r \in 1..Len(c.lines) |-> [j \in 1..Len(c.header) |-> field_value(c, r, j)]])

-----------------------------------------------------------------------------
(* The processed directory *)

Prefix == <<"n", "b", "a", "_", "t", "e", "a", "m", "_", "f", "a", "c", "t", "o", "r", "s", "_">>

CsvExt == <<".", "c", "s", "v">>

JsonExt == <<".", "j", "s", "o", "n">>

\* nba_team_factors_current.csv
CurrentName == Prefix \o <<"c", "u", "r", "r", "e", "n", "t">> \o CsvExt

\* nba_team_factors_<stamp>.csv and .json
SnapshotCsv(stamp) == Prefix \o stamp \o CsvExt

SnapshotJson(stamp) == Prefix \o stamp \o JsonExt

StartsWith(s, p) == Len(s) >= Len(p) /\ SubSeq(s, 1, Len(p)) = p

EndsWith(s, p) == Len(s) >= Len(p) /\ SubSeq(s, Len(s) - Len(p) + 1, Len(s)) = p

\* args.date.replace("-", "")
StampOfDate(date) == RemoveChar(date, "-")

\* open(name, "w") and write: the file is created or its content replaced
WriteFile(fs, name, content) ==
    [n \in DOMAIN fs \cup {name} |-> IF n = name THEN content ELSE fs[n]]

\* the glob nba_team_factors_[0-9]*.csv
GlobMatches(name) ==
    /\ Len(name) >= Len(Prefix) + 1 + Len(CsvExt)
    /\ StartsWith(name, Prefix)
    /\ IsDigit(name[Len(Prefix) + 1])
    /\ EndsWith(name, CsvExt)

\* sorted(names): ascending in Python's order on strings
RECURSIVE sorted(_)
sorted(S) ==
    IF S = {} THEN <<>>
    ELSE LET least == CHOOSE x \in S : \A y \in S : x = y \/ StrLess(x, y)
         IN  <<least>> \o sorted(S \ {least})

\* paths[-1] if paths else None
last_or_none(paths) == IF paths # <<>> THEN Some(paths[Len(paths)]) ELSE None

_latest_snapshot(fs) == last_or_none(sorted({n \in DOMAIN fs : GlobMatches(n)}))

\* s.split(sep)[-1]: what follows the last separator
RECURSIVE AfterLast(_, _)
AfterLast(s, sep) ==
    IF \E i \in 1..Len(s) : s[i] = sep
    THEN AfterLast(SubSeq(s, (CHOOSE i \in 1..Len(s) : s[i] = sep) + 1, Len(s)), sep)
    ELSE s

\* s.split(sep)[0]: what precedes the first separator
BeforeFirst(s, sep) ==
    IF \E i \in 1..Len(s) : s[i] = sep
    THEN SubSeq(s, 1, (CHOOSE i \in 1..Len(s) : s[i] = sep /\ \A j \in 1..(i - 1) : s[j] # sep) - 1)
    ELSE s

\* path.split("_")[-1].split(".")[0]
StampOfPath(path) == BeforeFirst(AfterLast(path, "_"), ".")

-----------------------------------------------------------------------------
(* Dates *)

IsLeap(y) == y % 4 = 0 /\ (y % 100 # 0 \/ y % 400 = 0)

DaysInMonth(y, m) ==
    IF m = 2 THEN (IF IsLeap(y) THEN 29 ELSE 28)
    ELSE IF m \in {4, 6, 9, 11} THEN 30 ELSE 31

RECURSIVE DaysBeforeMonth(_, _)
DaysBeforeMonth(y, m) ==
    IF m = 1 THEN 0 ELSE DaysBeforeMonth(y, m - 1) + DaysInMonth(y, m - 1)

\* datetime.date(y, m, d) raises ValueError unless this holds
ValidDate(y, m, d) ==
    y >= 1 /\ y <= 9999 /\ m >= 1 /\ m <= 12 /\ d >= 1 /\ d <= DaysInMonth(y, m)

\* date.toordinal(): days since 0001-01-01, plus one
Ordinal(y, m, d) ==
    (y - 1) * 365 + (y - 1) \div 4 - (y - 1) \div 100 + (y - 1) \div 400
        + DaysBeforeMonth(y, m) + d

-----------------------------------------------------------------------------
(* Inputs of the importer and the loader *)

HeaderStd ==
    << <<"T", "e", "a", "m">>, <<"O", "R", "T", "G">>, <<"D", "R", "T", "G">>, <<"N", "e", "t", "R", "T", "G">>, <<"e", "F", "G", "%">>, <<"O", "R", "B", "%">>, <<"F", "T", "A", "r">>, <<"T", "O", "%">>,
       <<"E", "F", "G", "%", " ", "(", "D", "e", "f", ")">>, <<"O", "R", "B", "%", " ", "(", "D", "e", "f", ")">>, <<"F", "T", "A", "r", " ", "(", "D", "e", "f", ")">>, <<"T", "O", "%", " ", "(", "D", "e", "f", ")">> >>

\* no net-rating column; names that match an alias only after strip and lower
HeaderAlt ==
    << <<" ", "t", "e", "a", "m", " ">>, <<"o", "r", "t", "g">>, <<"D", "e", "f", "R", "t", "g">>, <<"O", "f", "f", " ", "e", "F", "G", "%">>, <<"O", "f", "f", " ", "O", "R", "B", "%">>, <<"f", "t", "a", " ", "r", "a", "t", "e">>, <<"T", "O", "V", "%">>,
       <<"D", "e", "f", " ", "e", "F", "G", "%">>, <<"D", "e", "f", " ", "O", "R", "B", "%">>, <<"D", "e", "f", " ", "F", "T", "A", "r">>, <<"D", "e", "f", " ", "T", "O", "V", "%">> >>

\* the sequence without its k-th element
Without(s, k) == SubSeq(s, 1, k - 1) \o SubSeq(s, k + 1, Len(s))

RowLakers ==
    << Str(<<"L", "o", "s", " ", "A", "n", "g", "e", "l", "e", "s", " ", "L", "a", "k", "e", "r", "s">>), Num(1153, 1), Num(1121, 1), Num(32, 1),
       Num(545, 1), Num(273, 1), Num(345, 1), Num(131, 1),
       Num(520, 1), Num(250, 1), Num(29, 2), Num(129, 1) >>

RowCeltics ==
    << Str(<<"B", "o", "s", "t", "o", "n", " ", "C", "e", "l", "t", "i", "c", "s">>), Num(1201, 1), Num(1100, 1), Num(101, 1),
       Num(571, 1), Num(240, 1), Num(301, 1), Num(120, 1),
       Num(515, 1), Num(262, 1), Num(270, 1), Num(141, 1) >>

\* fractions, a team the map does not know, values out of range
RowSpringfield ==
    << Str(<<"S", "p", "r", "i", "n", "g", "f", "i", "e", "l", "d">>), Num(1080, 1), Num(1105, 1), NaN,
       Num(512, 3), Num(273, 3), Num(345, 3), Num(-1, 1),
       Num(12, 1), Num(16, 1), Num(20000, 0), Num(149, 3) >>

\* text cells: percent signs, an unparsable cell, missing cells, no team
RowText ==
    << NaN, Str(<<"1", "1", "5", ".", "3">>), Str(<<"n", "/", "a">>), Str(<<"3", ".", "2">>),
       Str(<<"5", "4", ".", "5", "%">>), Str(<<" ", "2", "7", ".", "3", " ", "%">>), Str(<<"3", "4", ".", "5">>), NaN,
       Str(<<"x">>), Str(<<"-", "2", ".", "5", "%">>), Str(<<"0", ".", "2", "9">>), Str(<<"1", "2", ".", "9", "%">>) >>

TablePct == Table(HeaderStd, <<RowLakers, RowCeltics>>)

TableAlt == Table(HeaderAlt, <<Without(RowSpringfield, 4)>>)

TableText == Table(HeaderStd, <<RowText, RowCeltics, RowLakers>>)

TableEmpty == Table(HeaderStd, <<>>)

\* no offensive-rating column under any alias
TableNoORTG == Table(Without(HeaderStd, 2), <<Without(RowLakers, 2)>>)

\* no column for the last required field, and none for the optional one
TableNoDefTOV == Table(Without(HeaderAlt, 11), <<Without(Without(RowSpringfield, 4), 11)>>)

RawTables == {TablePct, TableAlt, TableText, TableEmpty, TableNoORTG, TableNoDefTOV}

\* the values of --date
Dates == { <<"2", "0", "2", "4", "-", "0", "2", "-", "2", "8">>, <<"2", "0", "2", "4", "-", "0", "3", "-", "0", "6">>, <<"2", "0", "2", "4", "-", "0", "3", "-", "0", "9">> }

\* the values of datetime.date.today() at a load
Todays == { [y |-> 2024, m |-> 3, d |-> 9], [y |-> 2024, m |-> 3, d |-> 10] }

\* the default of max_age_days
DefaultMaxAge == 3

\* the values of max_age_days
MaxAges == {0, DefaultMaxAge}

\* lines 140-143 on the outcome of load_and_normalize: df_out, and what to_csv
\* and to_json write
written(n, d) == [result |-> n, frame |-> d, csv |-> to_csv(d), json |-> to_json(d)]

export(n) == written(n, IF n.ok THEN sort_values(n.table) ELSE NoTable)

\* what a run computes from each input before it writes
Exported == [t \in RawTables |-> export(load_and_normalize(t))]

\* load_and_normalize(args.input) for each input (line 130)
Normalized == [t \in RawTables |-> Exported[t].result]

\* df_out of each input load_and_normalize accepts (line 140)
df_out == [t \in RawTables |-> Exported[t].frame]

\* what df_out.to_csv writes (lines 141 and 142)
CsvOf == [t \in RawTables |-> Exported[t].csv]

\* what df_out.to_json writes (line 143)
JsonOf == [t \in RawTables |-> Exported[t].json]

-----------------------------------------------------------------------------
(* The importer run *)

NoFiles == [n \in {} |-> NaN]

\* a run that writes the dated files only when they do not exist yet
main_keeping_snapshots(fs, dir, t, date) ==
    LET r == Normalized[t]
        stamp == StampOfDate(date)
        fs1 == WriteFile(fs, CurrentName, CsvOf[t])
        fs2 == IF SnapshotCsv(stamp) \in DOMAIN fs THEN fs1
               ELSE WriteFile(WriteFile(fs1, SnapshotCsv(stamp), CsvOf[t]),
                              SnapshotJson(stamp), JsonOf[t])
    IN  IF ~r.ok
        THEN [files |-> fs, dirExists |-> dir,
              result |-> [status |-> "error", canon |-> r.canon, table |-> t, date |-> date]]
        ELSE [files |-> fs2, dirExists |-> TRUE,
              result |-> [status |-> "ok", canon |-> <<>>, table |-> t, date |-> date]]

\* a run that names the dated files by the date as given, dashes included
main_dashed_stamp(fs, dir, t, date) ==
    LET r == Normalized[t]
        fs1 == WriteFile(fs, CurrentName, CsvOf[t])
        fs2 == WriteFile(fs1, SnapshotCsv(date), CsvOf[t])
        fs3 == WriteFile(fs2, SnapshotJson(date), JsonOf[t])
    IN  IF ~r.ok
        THEN [files |-> fs, dirExists |-> dir,
              result |-> [status |-> "error", canon |-> r.canon, table |-> t, date |-> date]]
        ELSE [files |-> fs3, dirExists |-> TRUE,
              result |-> [status |-> "ok", canon |-> <<>>, table |-> t, date |-> date]]

\* a run that creates the output directory before it reads the input
main_mkdir_first(fs, dir, t, date) ==
    LET r == Normalized[t]
        stamp == StampOfDate(date)
        fs1 == WriteFile(fs, CurrentName, CsvOf[t])
        fs2 == WriteFile(fs1, SnapshotCsv(stamp), CsvOf[t])
        fs3 == WriteFile(fs2, SnapshotJson(stamp), JsonOf[t])
    IN  IF ~r.ok
        THEN [files |-> fs, dirExists |-> TRUE,
              result |-> [status |-> "error", canon |-> r.canon, table |-> t, date |-> date]]
        ELSE [files |-> fs3, dirExists |-> TRUE,
              result |-> [status |-> "ok", canon |-> <<>>, table |-> t, date |-> date]]

\* a write of the dated CSV that leaves an existing file alone
write_snapshot_if_absent(fs, csv, date) ==
    IF SnapshotCsv(StampOfDate(date)) \in DOMAIN fs THEN fs
    ELSE WriteFile(fs, SnapshotCsv(StampOfDate(date)), csv)

\* df_out.to_csv(csv_current, index=False)
write_current(fs, csv) == WriteFile(fs, CurrentName, csv)

\* df_out.to_csv(csv_snapshot, index=False)
write_snapshot(fs, csv, date) == WriteFile(fs, SnapshotCsv(StampOfDate(date)), csv)

\* df_out.to_json(json_snapshot, orient="records", indent=2)
write_json(fs, json, date) == WriteFile(fs, SnapshotJson(StampOfDate(date)), json)

\* lines 130-143 on what the run computed: the ValueError of load_and_normalize
\* leaves before os.makedirs; else the three files are written
run(fs, dir, t, date, out) ==
    IF ~out.result.ok
    THEN [files |-> fs, dirExists |-> dir,
          result |-> [status |-> "error", canon |-> out.result.canon,
                      table |-> t, date |-> date]]
    ELSE [files |-> write_json(write_snapshot(write_current(fs, out.csv), out.csv, date),
                               out.json, date),
          dirExists |-> TRUE,
          result |-> [status |-> "ok", canon |-> <<>>, table |-> t, date |-> date]]

\* main() run to its end on a directory nobody else writes
main(fs, dir, t, date) == run(fs, dir, t, date, Exported[t])

\* a CSV file's content without its netrtg column (edited by hand)
cut_netrtg(csv) ==
    [header |-> Without(csv.header, 5),
     lines |-> [r \in 1..Len(csv.lines) |-> Without(csv.lines[r], 5)]]

CsvWithoutNetrtg == cut_netrtg(CsvOf[TablePct])

\* directories left by earlier runs on the tables out was computed from:
\* absent; snapshots without a current file; a JSON snapshot alone; a current
\* file and a snapshot that lack a required column
directories(out) ==
    { [dirExists |-> FALSE, files |-> NoFiles],
      [dirExists |-> TRUE,
       files |-> WriteFile(WriteFile(WriteFile(NoFiles,
                    SnapshotCsv(<<"2", "0", "2", "4", "0", "3", "0", "6">>), out[TableAlt].csv),
                    SnapshotJson(<<"2", "0", "2", "4", "0", "3", "0", "6">>), out[TableAlt].json),
                    SnapshotCsv(<<"2", "0", "2", "4", "0", "2", "2", "8">>), out[TablePct].csv)],
      [dirExists |-> TRUE,
       files |-> WriteFile(NoFiles, SnapshotJson(<<"2", "0", "2", "4", "0", "2", "2", "8">>), out[TablePct].json)],
      [dirExists |-> TRUE,
       files |-> WriteFile(WriteFile(NoFiles,
                    CurrentName, cut_netrtg(out[TablePct].csv)),
                    SnapshotCsv(<<"2", "0", "2", "4", "0", "2", "2", "8">>), cut_netrtg(out[TablePct].csv))] }

\* the directories a behaviour starts from
InitialDirs == directories(Exported)

\* the contents of the CSV files of those directories and of the runs
contents(out) == {out[t].csv : t \in RawTables} \cup {cut_netrtg(out[TablePct].csv)}

\* the CSV contents a file of the directory can hold
CsvContents == contents(Exported)

\* pd.read_csv of each of them (line 27)
Parsed == [c \in CsvContents |-> read_csv(c)]

NoImport == [status |-> "none", canon |-> <<>>, table |-> NoTable, date |-> <<>>]

\* the variables a specification does not use
IdleResolver == columns = <<>> /\ aliases = <<>> /\ found = Pending

IdleNormalizers == cell = NaN /\ normOut = Pending

IdleRuns == pc = <<>> /\ args = <<>> /\ overlap = FALSE /\ lastWriter = None

IdleDirectory ==
    /\ files = NoFiles /\ dirExists = FALSE
    /\ importResult = NoImport /\ loadResult = Pending /\ runs = 0

-----------------------------------------------------------------------------
(* load_nba_team_factors *)

\* req of load_nba_team_factors
RequiredColumns ==
    { <<"t", "e", "a", "m">>, <<"o", "r", "t", "g">>, <<"d", "r", "t", "g">>, <<"n", "e", "t", "r", "t", "g">>,
      <<"o", "f", "f", "_", "e", "f", "g">>, <<"o", "f", "f", "_", "o", "r", "b">>, <<"o", "f", "f", "_", "t", "o", "v">>, <<"o", "f", "f", "_", "f", "t", "a", "r">>,
      <<"d", "e", "f", "_", "e", "f", "g">>, <<"d", "e", "f", "_", "o", "r", "b">>, <<"d", "e", "f", "_", "t", "o", "v">>, <<"d", "e", "f", "_", "f", "t", "a", "r">> }

\* a staleness test that also warns at the threshold
is_stale_at_threshold(age, max_age_days) == age >= max_age_days

\* the test of line 41
is_stale(age, max_age_days) == age > max_age_days

\* a selection that prefers the latest snapshot to the current file
select_snapshot_first(fs) ==
    IF {n \in DOMAIN fs : GlobMatches(n)} # {} THEN _latest_snapshot(fs)
    ELSE IF CurrentName \in DOMAIN fs THEN Some(CurrentName) ELSE None

\* line 23: the current file if it exists, else the latest snapshot, else None
select_path(fs) ==
    IF CurrentName \in DOMAIN fs THEN Some(CurrentName) ELSE _latest_snapshot(fs)

\* line 34 on the latest snapshot, if any
stamp_of(snap) == IF snap # None THEN Some(StampOfPath(snap.val)) ELSE None

\* lines 30-36: the stamp the staleness check uses, or None
effective_stamp(fs, path) ==
    IF EndsWith(path, <<"c", "u", "r", "r", "e", "n", "t", ".", "c", "s", "v">>)
    THEN stamp_of(_latest_snapshot(fs))
    ELSE Some(StampOfPath(path))

\* lines 40-46 on the date of the stamp: date() raises, or the age in days
\* and whether the warning is emitted
age_check(y, m, d, today, max_age_days) ==
    IF ~ValidDate(y, m, d)
    THEN [checked |-> TRUE, raised |-> TRUE, age |-> 0, warned |-> FALSE]
    ELSE [checked |-> TRUE, raised |-> FALSE,
          age |-> Ordinal(today.y, today.m, today.d) - Ordinal(y, m, d),
          warned |-> is_stale(Ordinal(today.y, today.m, today.d) - Ordinal(y, m, d),
                              max_age_days)]

\* lines 38-46 on a stamp: skipped, raised (int() or date() raises ValueError),
\* or checked
staleness(stamp, today, max_age_days) ==
    IF stamp = None \/ stamp.val = <<>>
           \/ \E i \in 1..Len(stamp.val) : ~IsDigit(stamp.val[i])
    THEN [checked |-> FALSE, raised |-> FALSE, age |-> 0, warned |-> FALSE]
    ELSE IF Len(stamp.val) < 7
    THEN [checked |-> TRUE, raised |-> TRUE, age |-> 0, warned |-> FALSE]
    ELSE age_check(DigitsVal(SubSeq(stamp.val, 1, 4)),
                   DigitsVal(SubSeq(stamp.val, 5, 6)),
                   DigitsVal(SubSeq(stamp.val, 7, Len(stamp.val))),
                   today, max_age_days)

\* lines 38-59 on the table read and the stamp found: the schema error or the
\* table returned, and the warning emitted
check(path, df, stamp, stale, call) ==
    IF stale.raised
    THEN [status |-> "ValueError(date)", path |-> Some(path), stamp |-> stamp,
          checked |-> TRUE, age |-> 0, warned |-> FALSE, missing |-> {},
          table |-> NoTable, call |-> call]
    ELSE IF RequiredColumns \ {lower(df.columns[i]) : i \in 1..Len(df.columns)} # {}
    THEN [status |-> "ValueError(missing)", path |-> Some(path), stamp |-> stamp,
          checked |-> stale.checked, age |-> stale.age, warned |-> stale.warned,
          missing |-> RequiredColumns \ {lower(df.columns[i]) : i \in 1..Len(df.columns)},
          table |-> NoTable, call |-> call]
    ELSE [status |-> "ok", path |-> Some(path), stamp |-> stamp,
          checked |-> stale.checked, age |-> stale.age, warned |-> stale.warned,
          missing |-> {}, table |-> df, call |-> call]

\* lines 27-59 on the file chosen
load_file(path, df, stamp, today, max_age_days) ==
    check(path, df, stamp, staleness(stamp, today, max_age_days),
          [today |-> today, max_age_days |-> max_age_days])

\* what one call does: the exception raised or the table returned, the file
\* read, the stamp used, and the warning emitted
load_nba_team_factors(fs, today, max_age_days) ==
    IF select_path(fs) = None
    THEN [status |-> "FileNotFoundError", path |-> None, stamp |-> None,
          checked |-> FALSE, age |-> 0, warned |-> FALSE, missing |-> {},
          table |-> NoTable, call |-> [today |-> today, max_age_days |-> max_age_days]]
    ELSE load_file(select_path(fs).val, Parsed[fs[select_path(fs).val]],
                   effective_stamp(fs, select_path(fs).val), today, max_age_days)

-----------------------------------------------------------------------------
(* Importer runs one after another, and loads *)

MaxRuns == 3

Init ==
    /\ \E dir \in InitialDirs : files = dir.files /\ dirExists = dir.dirExists
    /\ importResult = NoImport
    /\ loadResult = Pending
    /\ runs = 0
    /\ IdleResolver /\ IdleNormalizers /\ IdleRuns

\* one run of the importer, from argument parsing to exit
Import(t, date) ==
    /\ runs < MaxRuns
    /\ LET exit(end) ==
               /\ files' = end.files
               /\ dirExists' = end.dirExists
               /\ importResult' = end.result
       IN  exit(main(files, dirExists, t, date))
    /\ runs' = runs + 1
    /\ loadResult' = Pending
    /\ UNCHANGED <<columns, aliases, found, cell, normOut, pc, args, overlap, lastWriter>>

\* one call of load_nba_team_factors
Load(today, max_age_days) ==
    /\ loadResult' = load_nba_team_factors(files, today, max_age_days)
    /\ UNCHANGED <<files, dirExists, importResult, runs, columns, aliases, found,
                   cell, normOut, pc, args, overlap, lastWriter>>

Next ==
    \/ \E t \in RawTables, date \in Dates : Import(t, date)
    \/ \E today \in Todays, max_age_days \in MaxAges : Load(today, max_age_days)

Spec == Init /\ [][Next]_vars

-----------------------------------------------------------------------------
(* The column resolver on its own *)

InitResolver ==
    /\ columns \in DistinctSeqs(ResolverNames, MaxCols)
    /\ aliases \in DistinctSeqs(ResolverNames, MaxAliases)
    /\ found = Pending
    /\ IdleDirectory /\ IdleNormalizers /\ IdleRuns

\* one call of find_column
Resolve ==
    /\ found = Pending
    /\ found' = find_column(columns, aliases)
    /\ UNCHANGED <<files, dirExists, importResult, loadResult, runs, columns, aliases,
                   cell, normOut, pc, args, overlap, lastWriter>>

NextResolver == Resolve

SpecResolver == InitResolver /\ [][NextResolver]_vars

-----------------------------------------------------------------------------
(* The unit normalizers and the clip on their own *)

InitNormalizers ==
    /\ cell \in RawCells
    /\ normOut = Pending
    /\ IdleDirectory /\ IdleResolver /\ IdleRuns

\* one cell through a percentage-like field and through a rate-like field
Normalize ==
    /\ normOut = Pending
    /\ normOut' = [pct |-> PctField(cell), ratio |-> RatioField(cell)]
    /\ UNCHANGED <<files, dirExists, importResult, loadResult, runs, columns, aliases,
                   found, cell, pc, args, overlap, lastWriter>>

NextNormalizers == Normalize

SpecNormalizers == InitNormalizers /\ [][NextNormalizers]_vars

-----------------------------------------------------------------------------
(* C7: the column resolver *)

\* the column equals the alias once both are stripped and lower-cased
Matches(c, a) == lower(strip(c)) = lower(strip(a))

Least(S) == CHOOSE i \in S : \A j \in S : i <= j

\* C7 (as amended): find_column goes through the aliases in order and settles on
\* the first alias that some column matches after strip and lower; it returns
\* that alias when a column is exactly it, else the first column of the table
\* that matches it; it returns None exactly when no column matches any alias
\* after strip and lower.
C7_ResolverPerAlias ==
    found # Pending =>
        LET hit == {i \in 1..Len(aliases) :
                       \E j \in 1..Len(columns) : Matches(columns[j], aliases[i])}
        IN  IF hit = {} THEN found = None
            ELSE LET a == aliases[Least(hit)]
                 IN  found = Some(IF a \in Range(columns) THEN a
                                  ELSE columns[Least({j \in 1..Len(columns) :
                                                         Matches(columns[j], a)})])

\* find_column(["ortg", "OffRtg"], ["ORTG", "OffRtg"]) returns "ortg"
C7_Witness ==
    /\ columns = << <<"o", "r", "t", "g">>, <<"O", "f", "f", "R", "t", "g">> >>
    /\ aliases = << <<"O", "R", "T", "G">>, <<"O", "f", "f", "R", "t", "g">> >>
    /\ found = Some(<<"o", "r", "t", "g">>)

\* C7 (as stated): when some column exactly equals some alias, the column
\* returned exactly equals an alias: no column that matches an alias only
\* case-insensitively is preferred to it.
C7_ExactPreferred ==
    found # Pending =>
        ((\E i \in 1..Len(aliases) : aliases[i] \in Range(columns))
            => found # None /\ found.val \in Range(aliases))

-----------------------------------------------------------------------------
(* C8: the range of the normalized fields *)

InRange(x, lo, hi) == x.kind # "nan" /\ Leq(lo, x) /\ Leq(x, hi)

\* C8 (as amended): a percentage-like field is missing or a fraction in [0, 1],
\* a rate-like field is missing or a ratio in [0, 1.5]; both are missing exactly
\* when the raw cell is missing or is text that is no number.
C8_RangeOrMissing ==
    normOut # Pending =>
        IF CellValue(cell) = NaN
        THEN normOut.pct = NaN /\ normOut.ratio = NaN
        ELSE /\ InRange(normOut.pct, Num(0, 0), Num(1, 0))
             /\ InRange(normOut.ratio, Num(0, 0), Num(15, 1))

\* the text cell "27.3" becomes 0.273 in both kinds of field
C8_Witness ==
    /\ cell = Str(<<"2", "7", ".", "3">>)
    /\ normOut # Pending
    /\ normOut.pct = Num(273, 3)
    /\ normOut.ratio = Num(273, 3)

\* C8 (as stated): whatever the raw cell, a percentage-like field is a fraction
\* in [0, 1] and a rate-like field a ratio in [0, 1.5].
C8_AlwaysInRange ==
    normOut # Pending =>
        /\ InRange(normOut.pct, Num(0, 0), Num(1, 0))
        /\ InRange(normOut.ratio, Num(0, 0), Num(15, 1))

-----------------------------------------------------------------------------
(* Importer runs and loads on a directory that does not exist at first *)

InitAbsent ==
    /\ files = NoFiles /\ dirExists = FALSE
    /\ importResult = NoImport
    /\ loadResult = Pending
    /\ runs = 0
    /\ IdleResolver /\ IdleNormalizers /\ IdleRuns

SpecAbsent == InitAbsent /\ [][Next]_vars

-----------------------------------------------------------------------------
(* C1: a failed run writes nothing *)

\* some field of the alias table other than NetRTG has no column that matches
\* one of its aliases
RequiredFieldMissing(t) ==
    \E i \in 1..Len(ALIASES) :
        /\ ALIASES[i].canon # NetRTG
        /\ ~\E a \in Range(ALIASES[i].aliases), c \in Range(t.columns) : Matches(c, a)

LacksRequiredField == [t \in RawTables |-> RequiredFieldMissing(t)]

\* C1: an importer run on a raw table in which a required canonical field
\* resolves to no column fails with an error, and leaves the processed
\* directory (its existence, the current CSV, every dated CSV and JSON) as it was.
C1_AllOrNothing ==
    [][(runs' = runs + 1 /\ LacksRequiredField[importResult'.table])
          => /\ importResult'.status = "error"
             /\ files' = files
             /\ dirExists' = dirExists]_vars

\* a run failed for the missing offensive rating and no directory was created
C1_Witness ==
    /\ importResult.status = "error"
    /\ importResult.table = TableNoORTG
    /\ importResult.canon = <<"O", "R", "T", "G">>
    /\ dirExists = FALSE
    /\ files = NoFiles

-----------------------------------------------------------------------------
(* C2: the file the loader reads *)

\* nba_team_factors_<digit>...csv
IsSnapshotCsv(n) ==
    \E k \in 1..Len(n) :
        /\ SubSeq(n, 1, k) = Prefix
        /\ k + 1 <= Len(n) - Len(CsvExt)
        /\ n[k + 1] \in {"0", "1", "2", "3", "4", "5", "6", "7", "8", "9"}
        /\ SubSeq(n, Len(n) - Len(CsvExt) + 1, Len(n)) = CsvExt

\* C2: the loader reads the current file when it exists; when it does not, the
\* lexicographically last dated CSV snapshot; it raises FileNotFoundError
\* exactly when there is neither; the table it returns is the file's.
C2_FileSelection ==
    loadResult # Pending =>
        LET snaps == {n \in DOMAIN files : IsSnapshotCsv(n)}
        IN  /\ CurrentName \in DOMAIN files => loadResult.path = Some(CurrentName)
            /\ (CurrentName \notin DOMAIN files /\ snaps # {}) =>
                   /\ loadResult.path # None
                   /\ loadResult.path.val \in snaps
                   /\ \A n \in snaps \ {loadResult.path.val} :
                          StrLess(n, loadResult.path.val)
            /\ loadResult.status = "FileNotFoundError"
                   <=> (CurrentName \notin DOMAIN files /\ snaps = {})
            /\ loadResult.status = "ok" =>
                   loadResult.table = Parsed[files[loadResult.path.val]]

\* the current file was read although a dated snapshot holds other content
C2_Witness ==
    /\ loadResult # Pending
    /\ loadResult.status = "ok"
    /\ loadResult.path = Some(CurrentName)
    /\ \E n \in DOMAIN files : IsSnapshotCsv(n) /\ files[n] # files[CurrentName]

-----------------------------------------------------------------------------
(* C3: what a run overwrites *)

\* C3 (as amended): no file of the processed directory is ever deleted, and the
\* only files whose content a run changes are the current file and the two
\* dated files of the run's own date stamp: a dated snapshot keeps its content
\* until a later run is given the same date.
C3_OnlyOwnStampOverwritten ==
    [][\A n \in DOMAIN files :
          /\ n \in DOMAIN files'
          /\ files'[n] # files[n] =>
                 n \in {CurrentName,
                        SnapshotCsv(StampOfDate(importResult'.date)),
                        SnapshotJson(StampOfDate(importResult'.date))}]_vars

\* the second run, dated 2024-03-06, wrote its own files and the current
\* file, and left the snapshot of 2024-02-28 as the first run wrote it
C3_Witness ==
    /\ runs = 2
    /\ importResult.status = "ok"
    /\ importResult.date = <<"2", "0", "2", "4", "-", "0", "3", "-", "0", "6">>
    /\ SnapshotCsv(<<"2", "0", "2", "4", "0", "2", "2", "8">>) \in DOMAIN files
    /\ SnapshotCsv(<<"2", "0", "2", "4", "0", "3", "0", "6">>) \in DOMAIN files
    /\ files[SnapshotCsv(<<"2", "0", "2", "4", "0", "2", "2", "8">>)] = CsvOf[TablePct]
    /\ files[SnapshotCsv(<<"2", "0", "2", "4", "0", "3", "0", "6">>)] = CsvOf[TableAlt]
    /\ files[CurrentName] = CsvOf[TableAlt]

\* C3 (as stated): once a dated snapshot file is written its content never
\* changes and it is never deleted; a later run overwrites only the current file.
C3_SnapshotsImmutable ==
    [][\A n \in DOMAIN files :
          n # CurrentName => n \in DOMAIN files' /\ files'[n] = files[n]]_vars

-----------------------------------------------------------------------------
(* C4: the current file and the last run's snapshot *)

-----------------------------------------------------------------------------
(* C5: the staleness warning *)

DateLess(a, b) ==
    a.y < b.y \/ (a.y = b.y /\ (a.m < b.m \/ (a.m = b.m /\ a.d < b.d)))

\* the day after a date
NextDay(a) ==
    IF a.d < DaysInMonth(a.y, a.m) THEN [y |-> a.y, m |-> a.m, d |-> a.d + 1]
    ELSE IF a.m < 12 THEN [y |-> a.y, m |-> a.m + 1, d |-> 1]
    ELSE [y |-> a.y + 1, m |-> 1, d |-> 1]

\* the days from one date to another, counted one day at a time
RECURSIVE DaysBetween(_, _)
DaysBetween(from, to) ==
    IF from = to THEN 0
    ELSE IF DateLess(to, from) THEN 0 - DaysBetween(to, from)
    ELSE 1 + DaysBetween(NextDay(from), to)

\* the date a stamp YYYYMMDD names
DateOfStamp(s) ==
    [y |-> DigitsVal(SubSeq(s, 1, 4)), m |-> DigitsVal(SubSeq(s, 5, 6)),
     d |-> DigitsVal(SubSeq(s, 7, Len(s)))]

\* C5: in a load that finds a date stamp, the StaleDataWarning is emitted if and
\* only if the days from the stamp's date to today exceed max_age_days, and it
\* carries that number of days; warned or not, the load returns the table of the
\* file it read, or raises the missing-columns error that file calls for.
C5_StaleWarning ==
    (loadResult # Pending /\ loadResult.stamp # None) =>
        LET age == DaysBetween(DateOfStamp(loadResult.stamp.val), loadResult.call.today)
            c == files[loadResult.path.val]
            have == {lower(c.header[i]) : i \in 1..Len(c.header)}
        IN  /\ loadResult.warned <=> age > loadResult.call.max_age_days
            /\ loadResult.warned => loadResult.age = age
            /\ IF RequiredColumns \subseteq have
               THEN loadResult.status = "ok" /\ loadResult.table = Parsed[c]
               ELSE /\ loadResult.status = "ValueError(missing)"
                    /\ loadResult.missing = RequiredColumns \ have

\* a snapshot dated 10 days ago, max_age_days = 3: warned with age 10, table returned
C5_Witness ==
    /\ loadResult # Pending
    /\ loadResult.call.max_age_days = 3
    /\ loadResult.warned
    /\ loadResult.age = 10
    /\ loadResult.status = "ok"

-----------------------------------------------------------------------------
(* C6: import, then load *)

-----------------------------------------------------------------------------
(* C9: the stamp of the staleness check *)

\* C9: when the loader reads the current file, the stamp its staleness check
\* uses is the date stamp of the run that wrote the current file: the current
\* file holds what the dated CSV of that stamp holds, and after a successful
\* run the stamp is that run's.
C9_StampIsCurrentWriter ==
    (loadResult # Pending /\ loadResult.path = Some(CurrentName)
            /\ loadResult.stamp # None) =>
        /\ files[CurrentName] = files[SnapshotCsv(loadResult.stamp.val)]
        /\ importResult.status = "ok" =>
               loadResult.stamp.val = StampOfDate(importResult.date)

-----------------------------------------------------------------------------
(* Two importer runs on the same directory, their steps interleaved *)

Runs == {"A", "B"}

NoArgs == [table |-> NoTable, date |-> <<>>]

\* the positions of a run that has entered main() and not left it
InMain == {"write_current", "write_snapshot", "write_json"}

InitRuns ==
    /\ files = NoFiles /\ dirExists = FALSE
    /\ pc = [r \in Runs |-> "idle"]
    /\ args = [r \in Runs |-> NoArgs]
    /\ overlap = FALSE
    /\ lastWriter = None
    /\ importResult = NoImport /\ loadResult = Pending /\ runs = 0
    /\ IdleResolver /\ IdleNormalizers

\* lines 124-138: the arguments, load_and_normalize, os.makedirs
Start(r, t, date) ==
    /\ pc[r] = "idle"
    /\ args' = [args EXCEPT ![r] = [table |-> t, date |-> date]]
    /\ overlap' = (overlap \/ \E q \in Runs \ {r} : pc[q] \in InMain)
    /\ IF Normalized[t].ok
       THEN pc' = [pc EXCEPT ![r] = "write_current"] /\ dirExists' = TRUE
       ELSE pc' = [pc EXCEPT ![r] = "failed"] /\ dirExists' = dirExists
    /\ UNCHANGED <<files, lastWriter, importResult, loadResult, runs, columns, aliases,
                   found, cell, normOut>>

\* line 141
WriteCurrent(r) ==
    /\ pc[r] = "write_current"
    /\ files' = write_current(files, CsvOf[args[r].table])
    /\ lastWriter' = Some(r)
    /\ pc' = [pc EXCEPT ![r] = "write_snapshot"]
    /\ UNCHANGED <<dirExists, args, overlap, importResult, loadResult, runs, columns,
                   aliases, found, cell, normOut>>

\* line 142
WriteSnapshot(r) ==
    /\ pc[r] = "write_snapshot"
    /\ files' = write_snapshot(files, CsvOf[args[r].table], args[r].date)
    /\ pc' = [pc EXCEPT ![r] = "write_json"]
    /\ UNCHANGED <<dirExists, args, overlap, lastWriter, importResult, loadResult, runs,
                   columns, aliases, found, cell, normOut>>

\* line 143, and the run ends
WriteJson(r) ==
    /\ pc[r] = "write_json"
    /\ files' = write_json(files, JsonOf[args[r].table], args[r].date)
    /\ pc' = [pc EXCEPT ![r] = "done"]
    /\ UNCHANGED <<dirExists, args, overlap, lastWriter, importResult, loadResult, runs,
                   columns, aliases, found, cell, normOut>>

NextRuns ==
    \/ \E r \in Runs, t \in RawTables, date \in Dates : Start(r, t, date)
    \/ \E r \in Runs : WriteCurrent(r)
    \/ \E r \in Runs : WriteSnapshot(r)
    \/ \E r \in Runs : WriteJson(r)

SpecRuns == InitRuns /\ [][NextRuns]_vars

-----------------------------------------------------------------------------
(* C10: the race on the current file *)

\* both runs are over, and the current CSV differs from the dated CSV of the
\* date stamp of the run that wrote the current CSV last
RaceOutcome ==
    /\ \A r \in Runs : pc[r] \in {"done", "failed"}
    /\ lastWriter # None
    /\ files[CurrentName] # files[SnapshotCsv(StampOfDate(args[lastWriter.val].date))]

\* C10: two runs whose steps interleave can end in the race outcome, and only
\* runs that overlapped can: when each run starts after the other is over, the
\* current CSV holds what the dated CSV of its last writer's stamp holds.
C10_RaceOnlyWhenOverlapping == RaceOutcome => overlap

\* both runs wrote all their files and the race outcome is there
C10_Witness == RaceOutcome /\ \A r \in Runs : pc[r] = "done"

====
